---------------------------- MODULE Spec2Model ----------------------------
(***************************************************************************)
(* Plan Builder (src/src/models/planBuilder.ts): the relation parser, the  *)
(* node store, the force-directed solver, the simulation controller and    *)
(* the pointer/drag protocol, as one state machine.                        *)
(*                                                                         *)
(* Numbers.  The code computes in IEEE doubles; the model computes in      *)
(* fixed point.  A length or position is an integer number of PosUnit-ths  *)
(* of a pixel, a velocity an integer number of VelUnit-ths of a pixel per  *)
(* tick, a unit vector component an integer number of thousandths.  Every  *)
(* quotient truncates toward zero, so a quantity and its negation round to *)
(* opposite values, as they do in the code.                                *)
(*                                                                         *)
(* Strings.  A string is a sequence of one-character strings.              *)
(***************************************************************************)
EXTENDS Integers, Sequences, FiniteSets, TLC

\* ------------------------------------------------------------------------
\* Bounds of the model
\* ------------------------------------------------------------------------

\* User events (input, pointer, resize, click) delivered in one behaviour.
MaxEvents == 2
\* Animation frames delivered in one behaviour.
MaxTicks == 2
\* Longest text the parser is checked on, in characters.
MaxLen == 5
\* Most nodes in a store the reconciliation is checked on.
MaxStore == 2
\* Longest edge list the name list is checked on.
MaxEdges == 3

\* ------------------------------------------------------------------------
\* Fixed point
\* ------------------------------------------------------------------------

PosUnit == 10
VelUnit == 1000
DirUnit == 1000

Abs(x) == IF x < 0 THEN -x ELSE x

Sign(x) == IF x > 0 THEN 1 ELSE IF x < 0 THEN -1 ELSE 0

Max(a, b) == IF a >= b THEN a ELSE b

Min(a, b) == IF a <= b THEN a ELSE b

\* a / b for b > 0, truncated toward zero.
Quot(a, b) == IF a >= 0 THEN a \div b ELSE -((-a) \div b)

RECURSIVE SqrtIn(_, _, _)
\* The largest r in lo..hi with r * r <= n, by bisection.
SqrtIn(n, lo, hi) ==
  IF lo >= hi THEN lo
  ELSE LET mid == (lo + hi + 1) \div 2
       IN IF mid * mid <= n THEN SqrtIn(n, mid, hi) ELSE SqrtIn(n, lo, mid - 1)

\* Math.sqrt on a non-negative integer below 2^31, rounded down.
ISqrt(n) == SqrtIn(n, 0, 46340)

RECURSIVE Hypot(_, _)
\* Math.hypot(x, y).  Operands too large to square in 32 bits are halved
\* first and the result doubled.
Hypot(x, y) ==
  IF Abs(x) <= 32000 /\ Abs(y) <= 32000
  THEN ISqrt(x * x + y * y)
  ELSE 2 * Hypot(Quot(x, 2), Quot(y, 2))

\* ------------------------------------------------------------------------
\* Strings
\* ------------------------------------------------------------------------

NL == "\n"

\* A line terminator that is no newline: \r, U+2028 or U+2029, which split,
\* trim, \s and `.` each treat alike.
CR == "\r"

\* The characters String.prototype.trim removes and \s matches.
IsSpace(c) == c = " " \/ c = NL \/ c = CR

\* The characters `.` matches: all but the line terminators.
IsDot(c) == c # NL /\ c # CR

RECURSIVE TrimLeft(_)
TrimLeft(s) == IF s # <<>> /\ IsSpace(Head(s)) THEN TrimLeft(Tail(s)) ELSE s

RECURSIVE TrimRight(_)
TrimRight(s) ==
  IF s # <<>> /\ IsSpace(s[Len(s)]) THEN TrimRight(SubSeq(s, 1, Len(s) - 1)) ELSE s

\* String.prototype.trim
Trim(s) == TrimRight(TrimLeft(s))

RECURSIVE SplitLines(_, _, _)
\* input.split(/\n+/): the pieces between maximal runs of newlines, the
\* empty pieces at either end of the input included.
SplitLines(s, cur, afterNl) ==
  IF s = <<>> THEN <<cur>>
  ELSE IF Head(s) = NL
       THEN IF afterNl THEN SplitLines(Tail(s), cur, TRUE)
            ELSE <<cur>> \o SplitLines(Tail(s), <<>>, TRUE)
       ELSE SplitLines(Tail(s), Append(cur, Head(s)), FALSE)

RECURSIVE SpaceRun(_, _)
\* The length of the run of \s characters of `line` that starts at p.
SpaceRun(line, p) ==
  IF p <= Len(line) /\ IsSpace(line[p]) THEN 1 + SpaceRun(line, p + 1) ELSE 0

\* Where group 2 starts when the tail matches from p: the second \s* is
\* greedy and gives back only what (.+) needs.
Group2Start(line, p) ==
  LET q == p + SpaceRun(line, p)
  IN Min(q + 2 + SpaceRun(line, q + 2), Len(line))

\* Whether \s*=>\s*(.+)$ matches `line` from position p.  "=" is no space,
\* so the first \s* takes the whole run; (.+) needs one character and
\* reaches the end of the input over characters `.` matches.
TailMatches(line, p) ==
  LET q == p + SpaceRun(line, p)
  IN /\ q + 1 <= Len(line)
     /\ line[q] = "="
     /\ line[q + 1] = ">"
     /\ q + 2 <= Len(line)
     /\ \A j \in Group2Start(line, p)..Len(line) : IsDot(line[j])

RECURSIVE LazyLeft(_, _)
\* The end of group 1 of /^(.+?)\s*=>\s*(.+)$/: the lazy (.+?) grows one
\* character at a time from i until the rest matches; 0 when none does.
LazyLeft(line, i) ==
  IF i > Len(line) \/ ~IsDot(line[i]) THEN 0
  ELSE IF TailMatches(line, i + 1) THEN i
  ELSE LazyLeft(line, i + 1)

\* The .map callback of parseEdges on one trimmed, non-empty line: the edge
\* in a one-element sequence, or <<>> for null.
ParseLine(line) ==
  LET i == LazyLeft(line, 1)
  IN IF i = 0 THEN <<>>
     ELSE LET from == Trim(SubSeq(line, 1, i))
              to == Trim(SubSeq(line, Group2Start(line, i + 1), Len(line)))
          IN IF from = <<>> \/ to = <<>> THEN <<>>
             ELSE <<[from |-> from, to |-> to]>>

RECURSIVE ParseLines(_)
ParseLines(lines) ==
  IF lines = <<>> THEN <<>>
  ELSE LET l == Trim(Head(lines))
       IN (IF l = <<>> THEN <<>> ELSE ParseLine(l)) \o ParseLines(Tail(lines))

parseEdges(input) == ParseLines(SplitLines(input, <<>>, FALSE))

RECURSIVE AddUnique(_, _)
AddUnique(seen, names) ==
  IF names = <<>> THEN seen
  ELSE IF \E k \in 1..Len(seen) : seen[k] = Head(names)
       THEN AddUnique(seen, Tail(names))
       ELSE AddUnique(Append(seen, Head(names)), Tail(names))

RECURSIVE Endpoints(_)
Endpoints(edges) ==
  IF edges = <<>> THEN <<>>
  ELSE <<Head(edges).from, Head(edges).to>> \o Endpoints(Tail(edges))

\* An Array in place of the Set: every endpoint, as often as it occurs.
allEndpoints(edges) == Endpoints(edges)

\* Array.from(new Set(...)): the endpoints in first-insertion order.
uniqueRooms(edges) == AddUnique(<<>>, Endpoints(edges))


\* ------------------------------------------------------------------------
\* Program constants
\* ------------------------------------------------------------------------

Str_living_room == <<"l", "i", "v", "i", "n", "g", " ", "r", "o", "o", "m">>
Str_room1 == <<"r", "o", "o", "m", "1">>
Str_room2 == <<"r", "o", "o", "m", "2">>
Str_arrow == <<" ", "=", ">", " ">>

DEFAULT_PREVIEW_RELATIONS ==
  <<"A", " ", "=", ">", " ", "B", NL, "B", " ", "=", ">", " ", "C">>

DEFAULT_EDIT_RELATIONS ==
  Str_living_room \o Str_arrow \o Str_room1 \o <<NL>> \o Str_room1 \o Str_arrow \o Str_room2

\* Pixels.
BASE_ROOM_W == 80
BASE_ROOM_H == 50

\* state.params.  centerK, attractK and damping are hundredths.
CenterK100 == 2
AttractK100 == 2
RepelK == 2000
Damping100 == 90
MaxSpeed == 400
TargetGap == 40
MinGap == 20
StopVel == 2
\* The tolerance of the convergence test, pixels.
GapSlack == 4
\* dt = 1 / FrameRate, and the factor of the position update.
FrameRate == 60
\* `|| 0.0001` of pairwiseForces: the smallest positive length.
DistEps == 1
\* The smallest size a size input leaves, pixels.
MinSize == 20
\* The floor of the layout circle's radius, pixels, and the share of the
\* smaller pane side it otherwise takes, hundredths.
MinRadius == 60
RadiusShare100 == 35
\* The pane size resizeRendererToPane falls back to, pixels.
FallbackW == 640
FallbackH == 360

\* a * b / c for b >= 0, c > 0, truncated toward zero, without forming a * b.
MulDiv(a, b, c) ==
  LET q == Abs(a) \div c
      r == Abs(a) % c
  IN Sign(a) * (q * b + (r * b) \div c)

\* ------------------------------------------------------------------------
\* Initial layout and the node store
\* ------------------------------------------------------------------------

\* <<Math.cos(a), Math.sin(a)>> for a = i * 2 * PI / n - PI / 2, thousandths.
CircleDir(i, n) ==
  CASE n = 1 -> <<0, -1000>>
    [] n = 2 -> <<<<0, -1000>>, <<0, 1000>>>>[i + 1]
    [] n = 3 -> <<<<0, -1000>>, <<866, 500>>, <<-866, 500>>>>[i + 1]
    [] n = 4 -> <<<<0, -1000>>, <<1000, 0>>, <<0, 1000>>, <<-1000, 0>>>>[i + 1]
    [] n = 5 -> <<<<0, -1000>>, <<951, -309>>, <<588, 809>>,
                  <<-588, 809>>, <<-951, -309>>>>[i + 1]
    [] n = 6 -> <<<<0, -1000>>, <<866, -500>>, <<866, 500>>,
                  <<0, 1000>>, <<-866, 500>>, <<-866, -500>>>>[i + 1]

\* A layout whose radius is 0.35 * min(w, h) with no floor of 60.
layoutCircleNoFloor(labels, w, h) ==
  LET r == Quot(Min(w, h) * RadiusShare100 * PosUnit, 100)
  IN [i \in 1..Len(labels) |->
        LET d == CircleDir(i - 1, Max(1, Len(labels)))
        IN <<Quot(d[1] * r, DirUnit), Quot(d[2] * r, DirUnit)>>]

\* layoutCircle: the position of each label, by index; w and h in pixels.
layoutCircle(labels, w, h) ==
  LET r == Max(MinRadius * PosUnit, Quot(Min(w, h) * RadiusShare100 * PosUnit, 100))
  IN [i \in 1..Len(labels) |->
        LET d == CircleDir(i - 1, Len(labels))
        IN <<Quot(d[1] * r, DirUnit), Quot(d[2] * r, DirUnit)>>]

\* map.get(name) on layoutCircle's result: a later label of the same name
\* overwrites an earlier one.
LayoutGet(labels, pos, name) ==
  LET is == {i \in 1..Len(labels) : labels[i] = name}
  IN pos[CHOOSE i \in is : \A j \in is : j <= i]

HasKey(nodes, name) == \E k \in 1..Len(nodes) : nodes[k].name = name

Includes(names, name) == \E k \in 1..Len(names) : names[k] = name

\* The identity of a newly allocated Node object: one no live object has.
\* `held` are the identities referenced from outside the map.
FreshId(nodes, held) ==
  LET used == {nodes[k].id : k \in 1..Len(nodes)} \cup held
  IN CHOOSE i \in 1..(Cardinality(used) + 1) : i \notin used

RECURSIVE InsertOrReset(_, _, _, _, _, _, _)
\* A names.forEach without the `if (!state.nodes.has(n))` guard on the
\* placement: a node already held is put back on the circle, at rest.
InsertOrReset(names, pos, k, nodes, held, baseRoomW, baseRoomH) ==
  IF k > Len(names) THEN nodes
  ELSE LET p == LayoutGet(names, pos, names[k])
       IN IF HasKey(nodes, names[k])
          THEN InsertOrReset(names, pos, k + 1,
                 [j \in 1..Len(nodes) |->
                    IF nodes[j].name = names[k]
                    THEN [nodes[j] EXCEPT !.px = p[1], !.py = p[2],
                                          !.vx = 0, !.vy = 0]
                    ELSE nodes[j]],
                 held, baseRoomW, baseRoomH)
          ELSE InsertOrReset(names, pos, k + 1,
                 Append(nodes, [id |-> FreshId(nodes, held), name |-> names[k],
                                px |-> p[1], py |-> p[2], vx |-> 0, vy |-> 0,
                                w |-> baseRoomW, h |-> baseRoomH]),
                 held, baseRoomW, baseRoomH)

RECURSIVE InsertMissing(_, _, _, _, _, _, _)
\* The names.forEach of ensureNodes, from the k-th name on.
InsertMissing(names, pos, k, nodes, held, baseRoomW, baseRoomH) ==
  IF k > Len(names) THEN nodes
  ELSE IF HasKey(nodes, names[k])
       THEN InsertMissing(names, pos, k + 1, nodes, held, baseRoomW, baseRoomH)
       ELSE LET p == LayoutGet(names, pos, names[k])
                n == [id |-> FreshId(nodes, held), name |-> names[k],
                      px |-> p[1], py |-> p[2], vx |-> 0, vy |-> 0,
                      w |-> baseRoomW, h |-> baseRoomH]
            IN InsertMissing(names, pos, k + 1, Append(nodes, n), held,
                             baseRoomW, baseRoomH)

RECURSIVE DeleteSkipping(_, _)
\* A deletion loop over the live collection by index: the element that
\* moves into a deleted slot is not looked at.
DeleteSkipping(names, nodes) ==
  IF nodes = <<>> THEN <<>>
  ELSE IF Includes(names, Head(nodes).name)
       THEN <<Head(nodes)>> \o DeleteSkipping(names, Tail(nodes))
       ELSE IF Len(nodes) = 1 THEN <<>>
       ELSE <<nodes[2]>> \o DeleteSkipping(names, Tail(Tail(nodes)))

\* The deletion loop of ensureNodes over a snapshot of the keys.
DeleteAbsent(names, nodes) ==
  SelectSeq(nodes, LAMBDA n : Includes(names, n.name))

\* ensureNodes: w and h are the pane's pixels, baseRoomW and baseRoomH
\* lengths.  The Map is the sequence of its values in insertion order.
ensureNodes(names, nodes, w, h, baseRoomW, baseRoomH, held) ==
  DeleteAbsent(names,
    InsertMissing(names, layoutCircle(names, w, h), 1, nodes, held,
                  baseRoomW, baseRoomH))

\* ------------------------------------------------------------------------
\* Hit test, adjacency, collision, forces, integration, convergence
\* ------------------------------------------------------------------------

\* Whether pt lies in n's rectangle, the boundary included.  Coordinates are
\* doubled so that an odd width has an exact half.
Within(pt, n) ==
  /\ 2 * pt[1] >= 2 * n.px - n.w
  /\ 2 * pt[1] <= 2 * n.px + n.w
  /\ 2 * pt[2] >= 2 * n.py - n.h
  /\ 2 * pt[2] <= 2 * n.py + n.h

RECURSIVE PickFrom(_, _, _, _)
\* The loop of pickNodeAt from the k-th node on; best is an index, 0 for
\* null, whose bestArea is Infinity.
PickFrom(pt, nodes, k, best) ==
  IF k > Len(nodes) THEN best
  ELSE IF ~Within(pt, nodes[k]) THEN PickFrom(pt, nodes, k + 1, best)
  ELSE IF best = 0 \/ nodes[k].w * nodes[k].h < nodes[best].w * nodes[best].h
       THEN PickFrom(pt, nodes, k + 1, k)
       ELSE PickFrom(pt, nodes, k + 1, best)

\* A hit test that takes the first node holding the point.
pickFirstAt(pt, nodes) ==
  IF \E k \in 1..Len(nodes) : Within(pt, nodes[k])
  THEN CHOOSE k \in 1..Len(nodes) :
         Within(pt, nodes[k]) /\ \A i \in 1..(k - 1) : ~Within(pt, nodes[i])
  ELSE 0

\* pickNodeAt: the index of the node picked, 0 for null.
pickNodeAt(pt, nodes) == PickFrom(pt, nodes, 1, 0)

\* An adjacency test that follows the edges from `from` to `to` only.
isConnectedDirected(edges, a, b) ==
  \E k \in 1..Len(edges) : edges[k].from = a /\ edges[k].to = b

\* The predicate createIsConnected returns.
isConnected(edges, a, b) ==
  \E k \in 1..Len(edges) :
    \/ edges[k].from = a /\ edges[k].to = b
    \/ edges[k].from = b /\ edges[k].to = a

\* Math.sign(d) || 1
SignOr1(d) == IF Sign(d) = 0 THEN 1 ELSE Sign(d)

\* A correction along the axis with the larger overlap.
resolveAlongLarger(a, b) ==
  LET dx == b.px - a.px
      dy == b.py - a.py
      overlapX2 == a.w + b.w - 2 * Abs(dx)
      overlapY2 == a.h + b.h - 2 * Abs(dy)
  IN IF overlapX2 > 0 /\ overlapY2 > 0
     THEN IF overlapX2 >= overlapY2
          THEN LET sx == SignOr1(dx)
                   push == Quot(overlapX2, 4)
               IN [hit |-> TRUE,
                   a |-> [a EXCEPT !.px = @ - sx * push, !.vx = Quot(@, 2)],
                   b |-> [b EXCEPT !.px = @ + sx * push, !.vx = Quot(@, 2)]]
          ELSE LET sy == SignOr1(dy)
                   push == Quot(overlapY2, 4)
               IN [hit |-> TRUE,
                   a |-> [a EXCEPT !.py = @ - sy * push, !.vy = Quot(@, 2)],
                   b |-> [b EXCEPT !.py = @ + sy * push, !.vy = Quot(@, 2)]]
     ELSE [hit |-> FALSE, a |-> a, b |-> b]

\* resolveAabbOverlap: [hit, a, b].  Overlaps are doubled lengths, so the
\* push, half an overlap, is a quarter of one.  The positions it leaves lie
\* on the grid of the lengths, as a.pos.x -= sx * push and b.pos.x += sx *
\* push round to the nearest double: what the rounding loses stays as
\* overlap.
resolveAabbOverlap(a, b) ==
  LET dx == b.px - a.px
      dy == b.py - a.py
      overlapX2 == a.w + b.w - 2 * Abs(dx)
      overlapY2 == a.h + b.h - 2 * Abs(dy)
  IN IF overlapX2 > 0 /\ overlapY2 > 0
     THEN IF overlapX2 < overlapY2
          THEN LET sx == SignOr1(dx)
                   push == Quot(overlapX2, 4)
               IN [hit |-> TRUE,
                   a |-> [a EXCEPT !.px = @ - sx * push, !.vx = Quot(@, 2)],
                   b |-> [b EXCEPT !.px = @ + sx * push, !.vx = Quot(@, 2)]]
          ELSE LET sy == SignOr1(dy)
                   push == Quot(overlapY2, 4)
               IN [hit |-> TRUE,
                   a |-> [a EXCEPT !.py = @ - sy * push, !.vy = Quot(@, 2)],
                   b |-> [b EXCEPT !.py = @ + sy * push, !.vy = Quot(@, 2)]]
     ELSE [hit |-> FALSE, a |-> a, b |-> b]

\* 0.5 * Math.hypot(n.w, n.h)
Radius(n) == Quot(Hypot(n.w, n.h), 2)

\* f * u * dt of applyConnectedForce, a velocity: f = attractK * diff.
ConnectedDv(diff, u) ==
  Quot(Quot(diff * u, DirUnit) * AttractK100 * VelUnit, 100 * PosUnit * FrameRate)

\* applyConnectedForce: <<a, b>>
applyConnectedForce(a, b, ux, uy, dist) ==
  LET target == Radius(a) + Radius(b) + TargetGap * PosUnit
      diff == dist - target
      fx == ConnectedDv(diff, ux)
      fy == ConnectedDv(diff, uy)
  IN <<[a EXCEPT !.vx = @ + fx, !.vy = @ + fy],
       [b EXCEPT !.vx = @ - fx, !.vy = @ - fy]>>

\* f * u * dt of applyRepelForce, a velocity: f = repelK / (dist * dist).
RepelDv(dist, u) ==
  LET g == Quot(RepelK * PosUnit * PosUnit * VelUnit, FrameRate)
      t == Quot(g, dist)
  IN IF t <= 2000000 THEN Quot(t * u, dist * DirUnit)
     ELSE Sign(u) * MulDiv(Quot(t, dist), Abs(u), DirUnit)

\* applyRepelForce: <<a, b>>
applyRepelForce(a, b, ux, uy, dist) ==
  LET fx == RepelDv(dist, ux)
      fy == RepelDv(dist, uy)
  IN <<[a EXCEPT !.vx = @ - fx, !.vy = @ - fy],
       [b EXCEPT !.vx = @ + fx, !.vy = @ + fy]>>

\* The collision loop of pairwiseForces: at most two corrections.
ResolveTwice(a, b) ==
  LET r1 == resolveAabbOverlap(a, b)
  IN IF ~r1.hit THEN <<a, b>>
     ELSE LET r2 == resolveAabbOverlap(r1.a, r1.b)
          IN <<r2.a, r2.b>>

\* The force of the inner loop of pairwiseForces on the pair a, b: <<a, b>>
PairForce(a, b, edges) ==
  LET dx == b.px - a.px
      dy == b.py - a.py
      d0 == Hypot(dx, dy)
      dist == IF d0 = 0 THEN DistEps ELSE d0
      ux == Quot(dx * DirUnit, dist)
      uy == Quot(dy * DirUnit, dist)
  IN IF isConnected(edges, a.name, b.name)
     THEN applyConnectedForce(a, b, ux, uy, dist)
     ELSE applyRepelForce(a, b, ux, uy, dist)

\* The body of the inner loop of pairwiseForces for the pair (i, j).
PairStep(arr, i, j, edges) ==
  LET f == PairForce(arr[i], arr[j], edges)
      r == ResolveTwice(f[1], f[2])
  IN [arr EXCEPT ![i] = r[1], ![j] = r[2]]

RECURSIVE PairLoop(_, _, _, _)
PairLoop(arr, i, j, edges) ==
  IF i > Len(arr) THEN arr
  ELSE IF j > Len(arr) THEN PairLoop(arr, i + 1, i + 2, edges)
  ELSE PairLoop(PairStep(arr, i, j, edges), i, j + 1, edges)

pairwiseForces(arr, edges) == PairLoop(arr, 1, 2, edges)

\* The body of the loop of integrateAndCenter for one node.
IntegrateNode(n) ==
  LET vx1 == n.vx + Quot(-n.px * CenterK100 * VelUnit, 100 * PosUnit * FrameRate)
      vy1 == n.vy + Quot(-n.py * CenterK100 * VelUnit, 100 * PosUnit * FrameRate)
      vx2 == MulDiv(vx1, Damping100, 100)
      vy2 == MulDiv(vy1, Damping100, 100)
      speed == Hypot(vx2, vy2)
      fast == speed > MaxSpeed * VelUnit
      vx3 == IF fast THEN MulDiv(vx2, MaxSpeed, Quot(speed, VelUnit)) ELSE vx2
      vy3 == IF fast THEN MulDiv(vy2, MaxSpeed, Quot(speed, VelUnit)) ELSE vy2
  IN [n EXCEPT !.vx = vx3, !.vy = vy3,
               !.px = @ + Quot(vx3 * PosUnit, VelUnit),
               !.py = @ + Quot(vy3 * PosUnit, VelUnit)]

integrateAndCenter(arr) == [k \in 1..Len(arr) |-> IntegrateNode(arr[k])]

\* The test nonOverlappingAndDistancesOk makes of the pair (a, b).
PairOk(a, b, edges) ==
  LET dx == Abs(b.px - a.px)
      dy == Abs(b.py - a.py)
      dist == Hypot(b.px - a.px, b.py - a.py)
  IN /\ ~(a.w + b.w - 2 * dx > 0 /\ a.h + b.h - 2 * dy > 0)
     /\ IF isConnected(edges, a.name, b.name)
        THEN ~(dist > Radius(a) + Radius(b) + (TargetGap + GapSlack) * PosUnit)
        ELSE ~(dist < Radius(a) + Radius(b) + (MinGap - GapSlack) * PosUnit)

\* A convergence test of the rectangles alone, without the two distances.
overlapFreeOnly(arr, edges) ==
  \A i \in 1..Len(arr) : \A j \in (i + 1)..Len(arr) :
    ~(/\ arr[i].w + arr[j].w - 2 * Abs(arr[j].px - arr[i].px) > 0
      /\ arr[i].h + arr[j].h - 2 * Abs(arr[j].py - arr[i].py) > 0)

nonOverlappingAndDistancesOk(arr, edges) ==
  \A i \in 1..Len(arr) : \A j \in (i + 1)..Len(arr) : PairOk(arr[i], arr[j], edges)

velocitiesAreSlow(arr) ==
  \A k \in 1..Len(arr) : Hypot(arr[k].vx, arr[k].vy) < StopVel * VelUnit

\* ------------------------------------------------------------------------
\* State
\* ------------------------------------------------------------------------

VARIABLES
  preview,        \* opts.preview
  text,           \* ui.edgesArea.value (no text area in preview)
  edges,          \* state.edges
  nodes,          \* state.nodes, the Map's values in insertion order
  lastNamesKey,   \* state.lastNamesKey
  sizeRows,       \* the room names the size inputs in ui.sizesList are for
  drag,           \* state.drag
  canvas,         \* the renderer's size, pixels, as the last drawGraph set it
  simRunning,     \* the controller's flag
  animationLoop,  \* the callback the renderer holds: "step" or "null"
  listeners,      \* the listeners enableFullControls registered, still on
  mounted,        \* whether ui.wrap is in the document
  last,           \* the handler that ran last: its name, its pointer in world
                  \* space, and whether the controller was running before it
  nEvents,        \* user events delivered so far
  nTicks          \* animation frames delivered so far

vars == <<preview, text, edges, nodes, lastNamesKey, sizeRows, drag, canvas,
          simRunning, animationLoop, listeners, mounted, last, nEvents, nTicks>>

ALL_LISTENERS ==
  {"resize", "input", "change", "click", "pointerdown", "pointermove", "pointerup"}

\* ------------------------------------------------------------------------
\* Inputs
\* ------------------------------------------------------------------------

\* What the user leaves in the text area.
TypedTexts ==
  { <<>>,
    Str_room1 \o Str_arrow \o Str_room2,
    DEFAULT_EDIT_RELATIONS }

\* Pane sizes a window resize leaves, pixels.
PaneSizes == { [w |-> 640, h |-> 360], [w |-> 160, h |-> 120] }

\* Pointer positions, client pixels.
ClientPoints == { <<330, 300>>, <<429, 117>>, <<5, 5>> }

\* Number(el.value) of a size input: NaN, or the number n.
SizeValues ==
  { [nan |-> TRUE, n |-> 0], [nan |-> FALSE, n |-> 0], [nan |-> FALSE, n |-> -5],
    [nan |-> FALSE, n |-> 10], [nan |-> FALSE, n |-> 20] }

\* What the user leaves in the from and to inputs before clicking Add.
AddInputs == { <<Str_room2, Str_living_room>>, <<<<" ">>, Str_room1>> }

\* ------------------------------------------------------------------------
\* Drawing and the controller
\* ------------------------------------------------------------------------

\* resizeRendererToPane: the size it sets and returns, pixels.
resizeRendererToPane(pane) ==
  [w |-> IF pane.w # 0 THEN pane.w ELSE FallbackW,
   h |-> IF pane.h # 0 THEN pane.h ELSE FallbackH]

RECURSIVE Join(_, _)
\* names.join(sep)
Join(names, sep) ==
  IF names = <<>> THEN <<>>
  ELSE IF Len(names) = 1 THEN names[1]
  ELSE names[1] \o <<sep>> \o Join(Tail(names), sep)

\* drawGraph, on the fields of state it reads and writes.  `pane` is the
\* pane's client size, `held` the node identities state.drag references.
drawGraph(st, edgesIn, pane, held) ==
  LET size == resizeRendererToPane(pane)
      names == uniqueRooms(edgesIn)
      key == Join(names, "|")
      rekey == key # st.lastNamesKey
      st1 == [st EXCEPT !.canvas = size,
                        !.lastNamesKey = key,
                        !.sizeRows = IF rekey /\ ~st.preview THEN names ELSE @]
  IN IF Len(names) = 0 THEN st1
     ELSE [st1 EXCEPT !.nodes = ensureNodes(names, st.nodes, size.w, size.h,
                                            BASE_ROOM_W * PosUnit,
                                            BASE_ROOM_H * PosUnit, held)]

\* A start without the opts.preview test.
startInPreview(ctl, isPreview) ==
  IF ctl.simRunning THEN ctl
  ELSE [simRunning |-> TRUE, animationLoop |-> "step"]

\* A stop that clears the flag and leaves the callback with the renderer.
stopKeepsLoop(ctl) ==
  IF ~ctl.simRunning THEN ctl
  ELSE [simRunning |-> FALSE, animationLoop |-> ctl.animationLoop]

\* createSimulationController.start, on [simRunning, animationLoop].
start(ctl, isPreview) ==
  IF isPreview \/ ctl.simRunning THEN ctl
  ELSE [simRunning |-> TRUE, animationLoop |-> "step"]

\* createSimulationController.stop
stop(ctl) ==
  IF ~ctl.simRunning THEN ctl
  ELSE [simRunning |-> FALSE, animationLoop |-> "null"]

\* getPointerWorld: client pixels to world lengths; the canvas sits at the
\* client origin.
getPointerWorld(ev, size) ==
  <<ev[1] * PosUnit - Quot(size.w * PosUnit, 2),
    Quot(size.h * PosUnit, 2) - ev[2] * PosUnit>>

Ctl == [simRunning |-> simRunning, animationLoop |-> animationLoop]

Draw == [preview |-> preview, nodes |-> nodes, lastNamesKey |-> lastNamesKey,
         sizeRows |-> sizeRows, canvas |-> canvas]

Held == IF drag.dragNode = 0 THEN {} ELSE {drag.dragNode}

NoPoint == <<0, 0>>

Did(op, pt) == [op |-> op, pt |-> pt, ran |-> simRunning]

\* A refresh that parses and draws and leaves the controller as it is.
RefreshNoStart(op, newText, pane) ==
  LET src == IF preview THEN DEFAULT_PREVIEW_RELATIONS ELSE newText
      e == parseEdges(src)
      d == drawGraph(Draw, e, pane, Held)
  IN /\ text' = newText
     /\ edges' = e
     /\ nodes' = d.nodes
     /\ lastNamesKey' = d.lastNamesKey
     /\ sizeRows' = d.sizeRows
     /\ canvas' = d.canvas
     /\ last' = Did(op, NoPoint)
     /\ UNCHANGED <<preview, drag, listeners, mounted, simRunning, animationLoop>>

\* The handler createRefreshHandler returns, with the text area holding
\* newText and the pane measuring `pane`.
Refresh(op, newText, pane) ==
  LET src == IF preview THEN DEFAULT_PREVIEW_RELATIONS ELSE newText
      e == parseEdges(src)
      d == drawGraph(Draw, e, pane, Held)
      c == start(Ctl, preview)
  IN /\ text' = newText
     /\ edges' = e
     /\ nodes' = d.nodes
     /\ lastNamesKey' = d.lastNamesKey
     /\ sizeRows' = d.sizeRows
     /\ canvas' = d.canvas
     /\ simRunning' = c.simRunning
     /\ animationLoop' = c.animationLoop
     /\ last' = Did(op, NoPoint)
     /\ UNCHANGED <<preview, drag, listeners, mounted>>

\* ------------------------------------------------------------------------
\* Construction
\* ------------------------------------------------------------------------

\* planBuilder(scene, opts): createInitialState, the listeners of
\* enableFullControls when interactive, and the first refresh().
Init ==
  \E p \in BOOLEAN, pane \in PaneSizes :
    LET text0 == IF p THEN <<>> ELSE DEFAULT_EDIT_RELATIONS
        e == parseEdges(IF p THEN DEFAULT_PREVIEW_RELATIONS ELSE text0)
        st0 == [preview |-> p, nodes |-> <<>>, lastNamesKey |-> <<>>,
                sizeRows |-> <<>>, canvas |-> pane]
        d == drawGraph(st0, e, pane, {})
        c == start([simRunning |-> FALSE, animationLoop |-> "null"], p)
    IN /\ preview = p
       /\ text = text0
       /\ edges = e
       /\ nodes = d.nodes
       /\ lastNamesKey = d.lastNamesKey
       /\ sizeRows = d.sizeRows
       /\ drag = [isDragging |-> FALSE, dragNode |-> 0, dragOffset |-> <<0, 0>>]
       /\ canvas = d.canvas
       /\ simRunning = c.simRunning
       /\ animationLoop = c.animationLoop
       /\ listeners = IF p THEN {} ELSE ALL_LISTENERS
       /\ mounted = TRUE
       /\ last = [op |-> "init", pt |-> NoPoint, ran |-> FALSE]
       /\ nEvents = 0
       /\ nTicks = 0

\* ------------------------------------------------------------------------
\* Handlers
\* ------------------------------------------------------------------------

\* One more event of the host or the user.
Event ==
  /\ nEvents < MaxEvents
  /\ nEvents' = nEvents + 1
  /\ UNCHANGED nTicks

\* An event of the user, who reaches only what is in the document.
UserEvent == mounted /\ Event

\* 'input' on the text area: the user has left newText in it.
TextInput ==
  \E newText \in TypedTexts :
    /\ "input" \in listeners
    /\ UserEvent
    /\ Refresh("input", newText, canvas)

\* 'change' on the show-arrows box.
ShowArrowsChange ==
  /\ "change" \in listeners
  /\ UserEvent
  /\ Refresh("change", text, canvas)

\* 'resize' on the window: createResizeHandler.
Resize ==
  \E pane \in PaneSizes :
    /\ "resize" \in listeners
    /\ UserEvent
    /\ Refresh("resize", text, pane)

\* 'click' on Add: createAddEdgeHandler, with f and t in the two inputs.
AddEdge ==
  \E in \in AddInputs :
    LET f == Trim(in[1])
        t == Trim(in[2])
        line == f \o Str_arrow \o t
    IN /\ "click" \in listeners
       /\ UserEvent
       /\ IF f = <<>> \/ t = <<>>
          THEN /\ last' = Did("click", NoPoint)
               /\ UNCHANGED <<preview, text, edges, nodes, lastNamesKey, sizeRows,
                              drag, canvas, simRunning, animationLoop, listeners,
                              mounted>>
          ELSE Refresh("click",
                       IF text # <<>> THEN text \o <<NL>> \o line ELSE line,
                       canvas)

\* A size without the floor: Number(el.value) || fallback
SizeOfUnclamped(v, fallback) ==
  LET n == IF v.nan \/ v.n = 0 THEN fallback ELSE v.n
  IN n * PosUnit

\* The size a size input leaves: Math.max(20, Number(el.value) || fallback)
SizeOf(v, fallback) ==
  LET n == IF v.nan \/ v.n = 0 THEN fallback ELSE v.n
  IN Max(MinSize, n) * PosUnit

\* The store after the listener of the size input of `room` for k has
\* read v: node.w = v or node.h = v when nodes.get(room) is a node.
SizeWritten(ns, room, k, v) ==
  LET size == SizeOf(v, IF k = "w" THEN BASE_ROOM_W ELSE BASE_ROOM_H)
  IN [j \in 1..Len(ns) |->
        IF ns[j].name = room
        THEN IF k = "w" THEN [ns[j] EXCEPT !.w = size]
             ELSE [ns[j] EXCEPT !.h = size]
        ELSE ns[j]]

\* 'input' on the size input of `room` for k: the listener attachSizeHandlers
\* adds.
SizeInput ==
  \E i \in 1..Len(sizeRows), k \in {"w", "h"}, v \in SizeValues :
    LET c == start(Ctl, preview)
    IN /\ UserEvent
       /\ nodes' = SizeWritten(nodes, sizeRows[i], k, v)
       /\ simRunning' = c.simRunning
       /\ animationLoop' = c.animationLoop
       /\ last' = Did("size", NoPoint)
       /\ UNCHANGED <<preview, text, edges, lastNamesKey, sizeRows, drag, canvas,
                      listeners, mounted>>

\* A pointer-down that stops the controller before it looks for a node.
PointerDownStopsFirst ==
  \E ev \in ClientPoints :
    LET pt == getPointerWorld(ev, canvas)
        target == pickNodeAt(pt, nodes)
        c == stop(Ctl)
    IN /\ "pointerdown" \in listeners
       /\ UserEvent
       /\ last' = Did("pointerdown", pt)
       /\ simRunning' = c.simRunning
       /\ animationLoop' = c.animationLoop
       /\ IF target = 0
          THEN UNCHANGED drag
          ELSE drag' = [isDragging |-> TRUE,
                        dragNode |-> nodes[target].id,
                        dragOffset |-> <<nodes[target].px - pt[1],
                                         nodes[target].py - pt[2]>>]
       /\ UNCHANGED <<preview, text, edges, nodes, lastNamesKey, sizeRows, canvas,
                      listeners, mounted>>

\* A pointer-down that grabs the node and leaves the controller alone.
PointerDownKeepsRunning ==
  \E ev \in ClientPoints :
    LET pt == getPointerWorld(ev, canvas)
        target == pickNodeAt(pt, nodes)
    IN /\ "pointerdown" \in listeners
       /\ UserEvent
       /\ last' = Did("pointerdown", pt)
       /\ IF target = 0
          THEN UNCHANGED drag
          ELSE drag' = [isDragging |-> TRUE,
                        dragNode |-> nodes[target].id,
                        dragOffset |-> <<nodes[target].px - pt[1],
                                         nodes[target].py - pt[2]>>]
       /\ UNCHANGED <<preview, text, edges, nodes, lastNamesKey, sizeRows, canvas,
                      simRunning, animationLoop, listeners, mounted>>

\* 'pointerdown' on the canvas: createPointerDownHandler.
PointerDown ==
  \E ev \in ClientPoints :
    LET pt == getPointerWorld(ev, canvas)
        target == pickNodeAt(pt, nodes)
        c == stop(Ctl)
    IN /\ "pointerdown" \in listeners
       /\ UserEvent
       /\ last' = Did("pointerdown", pt)
       /\ IF target = 0
          THEN UNCHANGED <<drag, simRunning, animationLoop>>
          ELSE /\ drag' = [isDragging |-> TRUE,
                           dragNode |-> nodes[target].id,
                           dragOffset |-> <<nodes[target].px - pt[1],
                                            nodes[target].py - pt[2]>>]
               /\ simRunning' = c.simRunning
               /\ animationLoop' = c.animationLoop
       /\ UNCHANGED <<preview, text, edges, nodes, lastNamesKey, sizeRows, canvas,
                      listeners, mounted>>

\* A move that brings every other node to rest as well.
MoveDragNodeHaltAll(ns, dr, pt) ==
  [j \in 1..Len(ns) |->
     IF ns[j].id = dr.dragNode
     THEN [ns[j] EXCEPT !.px = pt[1] + dr.dragOffset[1],
                        !.py = pt[2] + dr.dragOffset[2],
                        !.vx = 0, !.vy = 0]
     ELSE [ns[j] EXCEPT !.vx = 0, !.vy = 0]]

\* A move that puts the node's centre under the pointer, the offset unused.
MoveDragNodeToPointer(ns, dr, pt) ==
  [j \in 1..Len(ns) |->
     IF ns[j].id = dr.dragNode
     THEN [ns[j] EXCEPT !.px = pt[1], !.py = pt[2], !.vx = 0, !.vy = 0]
     ELSE ns[j]]

\* The writes of createPointerMoveHandler to state.drag.dragNode.  A node
\* the Map no longer holds is written too, and nothing reads it again.
MoveDragNode(ns, dr, pt) ==
  [j \in 1..Len(ns) |->
     IF ns[j].id = dr.dragNode
     THEN [ns[j] EXCEPT !.px = pt[1] + dr.dragOffset[1],
                        !.py = pt[2] + dr.dragOffset[2],
                        !.vx = 0, !.vy = 0]
     ELSE ns[j]]

\* 'pointermove' on the canvas: createPointerMoveHandler.
PointerMove ==
  \E ev \in ClientPoints :
    LET pt == getPointerWorld(ev, canvas)
    IN /\ "pointermove" \in listeners
       /\ UserEvent
       /\ last' = Did("pointermove", pt)
       /\ IF drag.isDragging /\ drag.dragNode # 0
          THEN LET moved == [Draw EXCEPT !.nodes = MoveDragNode(nodes, drag, pt)]
                   d == drawGraph(moved, edges, canvas, Held)
               IN /\ nodes' = d.nodes
                  /\ lastNamesKey' = d.lastNamesKey
                  /\ sizeRows' = d.sizeRows
                  /\ canvas' = d.canvas
          ELSE UNCHANGED <<nodes, lastNamesKey, sizeRows, canvas>>
       /\ UNCHANGED <<preview, text, edges, drag, simRunning, animationLoop,
                      listeners, mounted>>

\* A pointer-up that ends the drag and never starts the controller.
PointerUpLeavesIdle ==
  /\ "pointerup" \in listeners
  /\ UserEvent
  /\ last' = Did("pointerup", NoPoint)
  /\ IF ~drag.isDragging
     THEN UNCHANGED drag
     ELSE drag' = [drag EXCEPT !.isDragging = FALSE, !.dragNode = 0]
  /\ UNCHANGED <<preview, text, edges, nodes, lastNamesKey, sizeRows, canvas,
                 simRunning, animationLoop, listeners, mounted>>

\* 'pointerup' on the window: createPointerUpHandler.
PointerUp ==
  LET c == start(Ctl, preview)
  IN /\ "pointerup" \in listeners
     /\ UserEvent
     /\ last' = Did("pointerup", NoPoint)
     /\ IF ~drag.isDragging
        THEN UNCHANGED <<drag, simRunning, animationLoop>>
        ELSE /\ drag' = [drag EXCEPT !.isDragging = FALSE, !.dragNode = 0]
             /\ simRunning' = c.simRunning
             /\ animationLoop' = c.animationLoop
     /\ UNCHANGED <<preview, text, edges, nodes, lastNamesKey, sizeRows, canvas,
                    listeners, mounted>>

\* Whether step finds the arrangement settled.
Settled(arr, es) == nonOverlappingAndDistancesOk(arr, es) /\ velocitiesAreSlow(arr)

\* A frame the renderer had queued: it runs whether or not the callback is
\* still installed.
TickQueued ==
  /\ nTicks < MaxTicks
  /\ nTicks' = nTicks + 1
  /\ last' = Did("tick", NoPoint)
  /\ IF Len(nodes) = 0
     THEN LET c == stop(Ctl)
          IN /\ simRunning' = c.simRunning
             /\ animationLoop' = c.animationLoop
             /\ UNCHANGED <<nodes, lastNamesKey, sizeRows, canvas>>
     ELSE LET arr == integrateAndCenter(pairwiseForces(nodes, edges))
              d == drawGraph([Draw EXCEPT !.nodes = arr], edges, canvas, Held)
              c == IF Settled(arr, edges) THEN stop(Ctl) ELSE Ctl
          IN /\ nodes' = d.nodes
             /\ lastNamesKey' = d.lastNamesKey
             /\ sizeRows' = d.sizeRows
             /\ canvas' = d.canvas
             /\ simRunning' = c.simRunning
             /\ animationLoop' = c.animationLoop
  /\ UNCHANGED <<preview, text, edges, drag, listeners, mounted, nEvents>>

\* A frame that returns on an empty store and leaves the controller as it is.
TickSkipsEmpty ==
  /\ animationLoop = "step"
  /\ nTicks < MaxTicks
  /\ nTicks' = nTicks + 1
  /\ last' = Did("tick", NoPoint)
  /\ IF Len(nodes) = 0
     THEN UNCHANGED <<nodes, lastNamesKey, sizeRows, canvas, simRunning, animationLoop>>
     ELSE LET arr == integrateAndCenter(pairwiseForces(nodes, edges))
              d == drawGraph([Draw EXCEPT !.nodes = arr], edges, canvas, Held)
              c == IF Settled(arr, edges) THEN stop(Ctl) ELSE Ctl
          IN /\ nodes' = d.nodes
             /\ lastNamesKey' = d.lastNamesKey
             /\ sizeRows' = d.sizeRows
             /\ canvas' = d.canvas
             /\ simRunning' = c.simRunning
             /\ animationLoop' = c.animationLoop
  /\ UNCHANGED <<preview, text, edges, drag, listeners, mounted, nEvents>>

\* One animation frame: the renderer calls the callback it holds, step.
Tick ==
  /\ animationLoop = "step"
  /\ nTicks < MaxTicks
  /\ nTicks' = nTicks + 1
  /\ last' = Did("tick", NoPoint)
  /\ IF Len(nodes) = 0
     THEN LET c == stop(Ctl)
          IN /\ simRunning' = c.simRunning
             /\ animationLoop' = c.animationLoop
             /\ UNCHANGED <<nodes, lastNamesKey, sizeRows, canvas>>
     ELSE LET arr == integrateAndCenter(pairwiseForces(nodes, edges))
              d == drawGraph([Draw EXCEPT !.nodes = arr], edges, canvas, Held)
              c == IF Settled(arr, edges) THEN stop(Ctl) ELSE Ctl
          IN /\ nodes' = d.nodes
             /\ lastNamesKey' = d.lastNamesKey
             /\ sizeRows' = d.sizeRows
             /\ canvas' = d.canvas
             /\ simRunning' = c.simRunning
             /\ animationLoop' = c.animationLoop
  /\ UNCHANGED <<preview, text, edges, drag, listeners, mounted, nEvents>>

\* A teardown that leaves the pointerup listener on the window.
CleanupLeavesPointerUp ==
  LET c == stop(Ctl)
  IN /\ Event
     /\ listeners' = listeners \cap {"pointerup"}
     /\ mounted' = FALSE
     /\ simRunning' = c.simRunning
     /\ animationLoop' = c.animationLoop
     /\ last' = Did("cleanup", NoPoint)
     /\ UNCHANGED <<preview, text, edges, nodes, lastNamesKey, sizeRows, drag,
                    canvas>>

\* The function createCleanup returns.
Cleanup ==
  LET c == stop(Ctl)
  IN /\ Event
     /\ listeners' = {}
     /\ mounted' = FALSE
     /\ simRunning' = c.simRunning
     /\ animationLoop' = c.animationLoop
     /\ last' = Did("cleanup", NoPoint)
     /\ UNCHANGED <<preview, text, edges, nodes, lastNamesKey, sizeRows, drag,
                    canvas>>

Next ==
  \/ TextInput
  \/ ShowArrowsChange
  \/ Resize
  \/ AddEdge
  \/ SizeInput
  \/ PointerDown
  \/ PointerMove
  \/ PointerUp
  \/ Tick
  \/ Cleanup

Spec == Init /\ [][Next]_vars

\* ------------------------------------------------------------------------
\* Teardown in a host where a release step throws
\* ------------------------------------------------------------------------

\* The release steps of the function createCleanup returns, in its order.
\* The six disposals are one step: each is wrapped alike and none is
\* state of the model.
CleanupSteps(isPreview) ==
  IF isPreview
  THEN <<"clearLiveObjects", "stop", "dispose", "remove", "style">>
  ELSE <<"rm resize", "rm input", "rm change", "rm click", "clearLiveObjects",
         "stop", "dispose", "remove", "style",
         "rm pointerdown", "rm pointermove", "rm pointerup">>

\* The steps whose failure safely() swallows, in createCleanup or in what
\* it calls (clearLiveObjects, stop).
Swallowed == {"clearLiveObjects", "stop", "dispose", "remove"}

\* The listener a removeEventListener step takes off.
ListenerOf(s) ==
  CASE s = "rm resize" -> {"resize"}
    [] s = "rm input" -> {"input"}
    [] s = "rm change" -> {"change"}
    [] s = "rm click" -> {"click"}
    [] s = "rm pointerdown" -> {"pointerdown"}
    [] s = "rm pointermove" -> {"pointermove"}
    [] s = "rm pointerup" -> {"pointerup"}
    [] OTHER -> {}

\* One release step on [listeners, mounted, ctl, threw]; `fail` is the step
\* that throws.  After a throw nothing swallowed, no later step runs.
ReleaseStep(st, s, fail) ==
  IF st.threw THEN st
  ELSE IF s = fail
       THEN IF s \notin Swallowed THEN [st EXCEPT !.threw = TRUE]
            ELSE IF s = "stop" /\ st.ctl.simRunning
                 THEN [st EXCEPT !.ctl = [simRunning |-> FALSE,
                                          animationLoop |-> st.ctl.animationLoop]]
                 ELSE st
       ELSE CASE s = "stop" -> [st EXCEPT !.ctl = stop(st.ctl)]
              [] s = "remove" -> [st EXCEPT !.mounted = FALSE]
              [] OTHER -> [st EXCEPT !.listeners = @ \ ListenerOf(s)]

RECURSIVE RunCleanup(_, _, _)
RunCleanup(st, steps, fail) ==
  IF steps = <<>> THEN st
  ELSE RunCleanup(ReleaseStep(st, Head(steps), fail), Tail(steps), fail)

\* Teardown is called and its step `fail` throws.
CleanupFailing ==
  \E k \in 1..Len(CleanupSteps(preview)) :
    LET r == RunCleanup([listeners |-> listeners, mounted |-> mounted,
                         ctl |-> Ctl, threw |-> FALSE],
                        CleanupSteps(preview), CleanupSteps(preview)[k])
    IN /\ Event
       /\ listeners' = r.listeners
       /\ mounted' = r.mounted
       /\ simRunning' = r.ctl.simRunning
       /\ animationLoop' = r.ctl.animationLoop
       /\ last' = Did(IF r.threw THEN "cleanup threw" ELSE "cleanup", NoPoint)
       /\ UNCHANGED <<preview, text, edges, nodes, lastNamesKey, sizeRows, drag,
                      canvas>>

NextTeardown ==
  \/ Next
  \/ CleanupFailing

SpecTeardown == Init /\ [][NextTeardown]_vars

\* ------------------------------------------------------------------------
\* The controller under arbitrary callers
\* ------------------------------------------------------------------------

\* A caller invokes controller.start().
CallStart ==
  LET c == start(Ctl, preview)
  IN /\ Event
     /\ simRunning' = c.simRunning
     /\ animationLoop' = c.animationLoop
     /\ last' = Did("start", NoPoint)
     /\ UNCHANGED <<preview, text, edges, nodes, lastNamesKey, sizeRows, drag,
                    canvas, listeners, mounted>>

\* A caller invokes controller.stop().
CallStop ==
  LET c == stop(Ctl)
  IN /\ Event
     /\ simRunning' = c.simRunning
     /\ animationLoop' = c.animationLoop
     /\ last' = Did("stop", NoPoint)
     /\ UNCHANGED <<preview, text, edges, nodes, lastNamesKey, sizeRows, drag,
                    canvas, listeners, mounted>>

NextCtl ==
  \/ CallStart
  \/ CallStop
  \/ Tick
  \/ TextInput
  \/ Cleanup

SpecCtl == Init /\ [][NextCtl]_vars

\* ------------------------------------------------------------------------
\* The controller from its construction: createSimulationController on the
\* state createInitialState returns, before the first refresh()
\* ------------------------------------------------------------------------

InitStep ==
  \E p \in BOOLEAN, pane \in PaneSizes :
    /\ preview = p
    /\ text = IF p THEN <<>> ELSE DEFAULT_EDIT_RELATIONS
    /\ edges = <<>>
    /\ nodes = <<>>
    /\ lastNamesKey = <<>>
    /\ sizeRows = <<>>
    /\ drag = [isDragging |-> FALSE, dragNode |-> 0, dragOffset |-> <<0, 0>>]
    /\ canvas = pane
    /\ simRunning = FALSE
    /\ animationLoop = "null"
    /\ listeners = {}
    /\ mounted = TRUE
    /\ last = [op |-> "init", pt |-> NoPoint, ran |-> FALSE]
    /\ nEvents = 0
    /\ nTicks = 0

\* refresh(), as runInteractiveMode and runPreviewMode call it, with the
\* text area holding newText.
CallRefresh ==
  \E newText \in TypedTexts \cup {text} :
    /\ Event
    /\ Refresh("refresh", newText, canvas)

NextStep ==
  \/ CallStart
  \/ CallStop
  \/ CallRefresh
  \/ Tick

SpecStep == InitStep /\ [][NextStep]_vars

\* ------------------------------------------------------------------------
\* The node store alone: ensureNodes on bounded stores and edge lists
\* ------------------------------------------------------------------------

Str_a == <<"a">>
Str_b == <<"b">>
Str_c == <<"c">>

StoreShapes ==
  [name : {Str_a, Str_b, Str_c}, px : {0, 700}, py : {-600},
   vx : {0, 50}, vy : {0}, w : {BASE_ROOM_W * PosUnit, 200}, h : {BASE_ROOM_H * PosUnit}]

\* The stores of at most MaxStore nodes, each under its own name.
Stores ==
  LET shaped == UNION {[1..n -> StoreShapes] : n \in 0..MaxStore}
      named == {f \in shaped :
                  \A i, j \in DOMAIN f : f[i].name = f[j].name => i = j}
  IN {[k \in DOMAIN f |->
         [id |-> k, name |-> f[k].name, px |-> f[k].px, py |-> f[k].py,
          vx |-> f[k].vx, vy |-> f[k].vy, w |-> f[k].w, h |-> f[k].h]] : f \in named}

StoreEdges ==
  { <<>>,
    <<[from |-> Str_a, to |-> Str_b]>>,
    <<[from |-> Str_b, to |-> Str_c]>>,
    <<[from |-> Str_a, to |-> Str_b], [from |-> Str_b, to |-> Str_c]>>,
    <<[from |-> Str_c, to |-> Str_a], [from |-> Str_a, to |-> Str_b]>> }

\* Every variable the isolated checks do not use, at rest.
AtRest ==
  /\ preview = FALSE
  /\ lastNamesKey = <<>>
  /\ sizeRows = <<>>
  /\ drag = [isDragging |-> FALSE, dragNode |-> 0, dragOffset |-> <<0, 0>>]
  /\ simRunning = FALSE
  /\ animationLoop = "null"
  /\ listeners = {}
  /\ mounted = FALSE
  /\ last = [op |-> "init", pt |-> NoPoint, ran |-> FALSE]
  /\ nEvents = 0
  /\ nTicks = 0

InitStore ==
  /\ AtRest
  /\ text = <<>>
  /\ nodes \in Stores
  /\ edges \in StoreEdges
  /\ canvas \in PaneSizes

ReconcileOps == {"reconcile", "reconcile again"}

\* ensureNodes(uniqueRooms(edges), nodes, w, h, ...) as drawGraph calls it;
\* "reconcile again" when no change of edges or pane came since the last call.
Reconcile ==
  /\ Event
  /\ nodes' = ensureNodes(uniqueRooms(edges), nodes, canvas.w, canvas.h,
                          BASE_ROOM_W * PosUnit, BASE_ROOM_H * PosUnit, {})
  /\ last' = Did(IF last.op \in ReconcileOps THEN "reconcile again" ELSE "reconcile",
                 NoPoint)
  /\ UNCHANGED <<preview, text, edges, lastNamesKey, sizeRows, drag, canvas,
                 simRunning, animationLoop, listeners, mounted>>

\* The edge list and the pane change between two calls.
Retarget ==
  \E es \in StoreEdges, pane \in PaneSizes :
    /\ Event
    /\ edges' = es
    /\ canvas' = pane
    /\ last' = Did("retarget", NoPoint)
    /\ UNCHANGED <<preview, text, nodes, lastNamesKey, sizeRows, drag,
                   simRunning, animationLoop, listeners, mounted>>

NextStore ==
  \/ Reconcile
  \/ Retarget

SpecStore == InitStore /\ [][NextStore]_vars

\* ------------------------------------------------------------------------
\* The forces alone: a running controller over three rooms a, b, c placed
\* apart, overlapping and on top of each other
\* ------------------------------------------------------------------------

\* Room a at the origin and at rest, wide or narrow.
ForceA == [px : {0}, py : {0}, vx : {0}, vy : {0}, w : {800, 210}, h : {500}]

\* Room b on a, beside a with an overlap on either axis, or far from a.
ForceB ==
  [px : {0, 300, -705, 2000}, py : {0, 300, -600}, vx : {0, 60}, vy : {0, -40},
   w : {800}, h : {500}]

\* Room c, away from a.
ForceC == [px : {1500}, py : {900}, vx : {0}, vy : {0}, w : {800}, h : {500}]

ForceStores ==
  { [k \in 1..3 |->
       LET f == <<fa, fb, fc>>[k]
       IN [id |-> k, name |-> <<Str_a, Str_b, Str_c>>[k], px |-> f.px, py |-> f.py,
           vx |-> f.vx, vy |-> f.vy, w |-> f.w, h |-> f.h]] :
      fa \in ForceA, fb \in ForceB, fc \in ForceC }

\* Edge lists that name a, b and c: a and b connected once, reversed and
\* twice, and not connected.
ForceEdges ==
  { <<[from |-> Str_a, to |-> Str_b], [from |-> Str_b, to |-> Str_c]>>,
    <<[from |-> Str_b, to |-> Str_a], [from |-> Str_b, to |-> Str_c]>>,
    <<[from |-> Str_a, to |-> Str_b], [from |-> Str_a, to |-> Str_b],
      [from |-> Str_b, to |-> Str_c]>>,
    <<[from |-> Str_a, to |-> Str_c], [from |-> Str_c, to |-> Str_b]>>,
    <<[from |-> Str_c, to |-> Str_a], [from |-> Str_b, to |-> Str_c]>> }

InitForces ==
  /\ preview = FALSE
  /\ text = <<>>
  /\ edges \in ForceEdges
  /\ nodes \in ForceStores
  /\ lastNamesKey = Join(uniqueRooms(edges), "|")
  /\ sizeRows = uniqueRooms(edges)
  /\ drag = [isDragging |-> FALSE, dragNode |-> 0, dragOffset |-> <<0, 0>>]
  /\ canvas = [w |-> FallbackW, h |-> FallbackH]
  /\ simRunning = TRUE
  /\ animationLoop = "step"
  /\ listeners = ALL_LISTENERS
  /\ mounted = TRUE
  /\ last = [op |-> "init", pt |-> NoPoint, ran |-> FALSE]
  /\ nEvents = 0
  /\ nTicks = 0

\* if (!resolveAabbOverlap(a, b)) break; on its own, for the pair (a, b).
Resolve ==
  LET r == resolveAabbOverlap(nodes[1], nodes[2])
  IN /\ Event
     /\ nodes' = [nodes EXCEPT ![1] = r.a, ![2] = r.b]
     /\ last' = Did(IF r.hit THEN "resolve hit" ELSE "resolve miss", NoPoint)
     /\ UNCHANGED <<preview, text, edges, lastNamesKey, sizeRows, drag, canvas,
                    simRunning, animationLoop, listeners, mounted>>

\* The force of pairwiseForces on its own, for the pair (a, b).
Force ==
  LET f == PairForce(nodes[1], nodes[2], edges)
  IN /\ Event
     /\ nodes' = [nodes EXCEPT ![1] = f[1], ![2] = f[2]]
     /\ last' = Did("force", NoPoint)
     /\ UNCHANGED <<preview, text, edges, lastNamesKey, sizeRows, drag, canvas,
                    simRunning, animationLoop, listeners, mounted>>

NextForces ==
  \/ Tick
  \/ Resolve
  \/ Force

SpecForces == InitForces /\ [][NextForces]_vars

\* ------------------------------------------------------------------------
\* The parser alone: parseEdges on every short text
\* ------------------------------------------------------------------------

Alphabet == {"a", " ", "=", ">", NL, CR}

Str_ab == <<"a", "=", ">", "b">>
Str_ba == <<"b", " ", "=", ">", " ", "a">>

\* Lines longer than MaxLen, alone and in pairs.
SampleLines ==
  { Str_ab, Str_ba, <<"a", "=", ">", "=", ">", "b">>,
    <<"a", " ", "b", " ", "=", ">", "b", "=", ">", "a", " ", "=", ">">>,
    <<"=", ">", " ", "b">>, <<"a", " ", "=", ">">>, <<"a", "b">>,
    <<"a", CR, "b", " ", "=", ">", " ", "a">>, <<"a", "=", ">", "b", CR, "a">> }

ParseInputs ==
  UNION {[1..n -> Alphabet] : n \in 0..MaxLen}
    \cup SampleLines
    \cup {l1 \o <<NL>> \o l2 : l1, l2 \in SampleLines}
    \cup {l1 \o <<NL, " ", NL, NL>> \o l2 \o <<NL>> : l1, l2 \in SampleLines}

InitParse ==
  /\ AtRest
  /\ text \in ParseInputs
  /\ edges = <<>>
  /\ nodes = <<>>
  /\ canvas = [w |-> FallbackW, h |-> FallbackH]

Parse ==
  /\ last.op = "init"
  /\ edges' = parseEdges(text)
  /\ last' = Did("parse", NoPoint)
  /\ UNCHANGED <<preview, text, nodes, lastNamesKey, sizeRows, drag, canvas,
                 simRunning, animationLoop, listeners, mounted, nEvents, nTicks>>

NextParse == Parse

SpecParse == InitParse /\ [][NextParse]_vars

\* ------------------------------------------------------------------------
\* The name list alone: uniqueRooms on every short edge list
\* ------------------------------------------------------------------------

\* Every edge list of at most MaxEdges edges between three rooms.
NameEdges ==
  LET es == [from : {Str_a, Str_b, Str_c}, to : {Str_a, Str_b, Str_c}]
  IN UNION {[1..n -> es] : n \in 0..MaxEdges}

InitNames ==
  /\ AtRest
  /\ text = <<>>
  /\ nodes = <<>>
  /\ edges \in NameEdges
  /\ canvas = [w |-> FallbackW, h |-> FallbackH]

\* const names = uniqueRooms(edgesIn), as drawGraph takes them for the rows
\* of the size list.
Names ==
  /\ last.op = "init"
  /\ sizeRows' = uniqueRooms(edges)
  /\ last' = Did("names", NoPoint)
  /\ UNCHANGED <<preview, text, edges, nodes, lastNamesKey, drag, canvas,
                 simRunning, animationLoop, listeners, mounted, nEvents, nTicks>>

NextNames == Names

SpecNames == InitNames /\ [][NextNames]_vars

\* ------------------------------------------------------------------------
\* The hit test alone: pickNodeAt on small stores of nested rectangles
\* ------------------------------------------------------------------------

\* The most nodes a store of PickStores holds.
MaxPick == 2

\* Rectangles that nest, overlap, share a boundary or lie apart.
PickShapes == [px : {0, 300}, w : {200, 800}, h : {200, 500}]

PickNames == <<Str_a, Str_b, Str_c>>

\* Every store of at most MaxPick nodes with a shape of PickShapes each.
PickStores ==
  UNION { { [j \in 1..n |->
               [id |-> j, name |-> PickNames[j], px |-> f[j].px, py |-> 0,
                vx |-> 0, vy |-> 0, w |-> f[j].w, h |-> f[j].h]] :
            f \in [1..n -> PickShapes] } : n \in 0..MaxPick }

\* World points inside, on the boundary of and outside the rectangles.
PickPoints == {-400, -100, 0, 100, 200, 400, 500} \X {0, 100, 250, 300}

InitPick ==
  /\ AtRest
  /\ text = <<>>
  /\ edges = <<>>
  /\ nodes \in PickStores
  /\ canvas = [w |-> FallbackW, h |-> FallbackH]

\* const target = pickNodeAt(pt, state.nodes), kept as the drag node.
Pick ==
  \E pt \in PickPoints :
    LET target == pickNodeAt(pt, nodes)
    IN /\ last.op = "init"
       /\ drag' = [drag EXCEPT !.dragNode = IF target = 0 THEN 0 ELSE nodes[target].id]
       /\ last' = Did("pick", pt)
       /\ UNCHANGED <<preview, text, edges, nodes, lastNamesKey, sizeRows, canvas,
                      simRunning, animationLoop, listeners, mounted, nEvents, nTicks>>

NextPick == Pick

SpecPick == InitPick /\ [][NextPick]_vars

\* ------------------------------------------------------------------------
\* Properties
\* ------------------------------------------------------------------------

RefreshOps == {"input", "change", "resize", "click"}

BaseW == BASE_ROOM_W * PosUnit

BaseH == BASE_ROOM_H * PosUnit

\* C1: in an interactive instance, while a drag is active the controller is
\* not running, under every interleaving of the handlers and the ticks.
C1_DragExcludesRunning == (~preview /\ drag.isDragging) => ~simRunning

\* C2: an edit whose text parses to no edge, on a non-empty node set, leaves
\* the node set empty, and the tick that follows it leaves the controller
\* idle.
C2_EmptyTextEmptiesStore ==
  [][/\ (last'.op = "input" /\ edges' = <<>> /\ nodes # <<>>) => nodes' = <<>>
     /\ (last.op = "input" /\ edges = <<>> /\ last'.op = "tick") => ~simRunning'
    ]_vars

\* C3: every node of the store is named by an endpoint of a current edge,
\* whatever the edge list, the empty one included.
C3_NodesAreEndpoints ==
  \A k \in 1..Len(nodes) : Includes(uniqueRooms(edges), nodes[k].name)

\* C4: the renderer holds the step callback exactly when the controller is
\* running, and start() on a running controller and stop() on an idle one
\* change neither.
C4_OneSubscription ==
  /\ [](simRunning <=> animationLoop = "step")
  /\ [][((last'.op = "start" /\ simRunning) \/ (last'.op = "stop" /\ ~simRunning))
          => UNCHANGED <<simRunning, animationLoop>>]_vars

\* start() has just been called on a running controller.
C4_Witness == last.op = "start" /\ last.ran /\ simRunning /\ animationLoop = "step"

\* C5: in preview the controller is never running and holds no callback,
\* whoever calls start(), and no tick executes.
C5_PreviewNeverRuns ==
  /\ [](preview => (~simRunning /\ animationLoop = "null"))
  /\ [][preview => last'.op # "tick"]_vars

\* start() has just been called on a preview instance.
C5_Witness == preview /\ last.op = "start" /\ ~simRunning

\* C6: a pointer-move during a drag leaves the dragged node at rest at
\* pointer + offset, the offset being the one the picking pointer-down
\* recorded (node centre - pointer) and no other handler writes.
C6_DragMoveExact ==
  [][/\ (last'.op = "pointermove" /\ drag.isDragging /\ drag.dragNode # 0) =>
          \A k \in 1..Len(nodes') :
            nodes'[k].id = drag.dragNode =>
              /\ nodes'[k].px = last'.pt[1] + drag.dragOffset[1]
              /\ nodes'[k].py = last'.pt[2] + drag.dragOffset[2]
              /\ nodes'[k].vx = 0
              /\ nodes'[k].vy = 0
     /\ (last'.op = "pointerdown" /\ drag' # drag) =>
          \E k \in 1..Len(nodes) :
            /\ nodes[k].id = drag'.dragNode
            /\ drag'.dragOffset = <<nodes[k].px - last'.pt[1],
                                    nodes[k].py - last'.pt[2]>>
     /\ last'.op # "pointerdown" => drag'.dragOffset = drag.dragOffset
    ]_vars

\* A move has carried a node held off its centre to another place.
C6_Witness ==
  /\ last.op = "pointermove"
  /\ drag.isDragging
  /\ drag.dragOffset # <<0, 0>>
  /\ \E k \in 1..Len(nodes) :
       /\ nodes[k].id = drag.dragNode
       /\ nodes[k].px = last.pt[1] + drag.dragOffset[1]
       /\ nodes[k].py = last.pt[2] + drag.dragOffset[2]
       /\ ~Within(<<nodes[k].px, nodes[k].py>>,
                  [px |-> 0, py |-> 0, w |-> 2 * MinRadius * PosUnit,
                   h |-> 2 * MinRadius * PosUnit])

NodeSet(ns) == {ns[k] : k \in 1..Len(ns)}

Linked(es, a, b) ==
  \E k \in 1..Len(es) : {es[k].from, es[k].to} = {a.name, b.name}

Dist(a, b) == Hypot(a.px - b.px, a.py - b.py)

RectsOverlap(a, b) ==
  /\ 2 * Abs(a.px - b.px) < a.w + b.w
  /\ 2 * Abs(a.py - b.py) < a.h + b.h

\* The settled arrangement as section 4.6 of the specification states it.
SettledAsStated(ns, es) ==
  /\ \A a, b \in NodeSet(ns) :
       a # b =>
         /\ ~RectsOverlap(a, b)
         /\ Linked(es, a, b) =>
              Dist(a, b) <= Radius(a) + Radius(b) + (TargetGap + GapSlack) * PosUnit
         /\ ~Linked(es, a, b) =>
              Dist(a, b) >= Radius(a) + Radius(b) + (MinGap - GapSlack) * PosUnit
  /\ \A a \in NodeSet(ns) : Hypot(a.vx, a.vy) < StopVel * VelUnit

C8_ReconcileIdempotent ==
  [][last'.op = "reconcile again" => nodes' = nodes]_vars

\* A second call has followed a first that inserted into a store holding a
\* node of an edited size.
C8_Witness ==
  /\ last.op = "reconcile again"
  /\ nEvents = 2
  /\ Len(nodes) = 3
  /\ \E k \in 1..Len(nodes) : nodes[k].w # BaseW
  /\ \E k \in 1..Len(nodes) : nodes[k].px # 0 /\ nodes[k].px # 700

\* C9: a refresh keeps, field for field, every node whose name the store
\* held before and holds after; it drops no node the new edges name, and
\* the nodes it adds are named by the new edges and were not held before.
C9_EditKeepsNodes ==
  [][last'.op \in RefreshOps =>
       /\ \A k \in 1..Len(nodes) :
            /\ HasKey(nodes', nodes[k].name) => nodes[k] \in NodeSet(nodes')
            /\ Includes(uniqueRooms(edges'), nodes[k].name) =>
                 HasKey(nodes', nodes[k].name)
       /\ \A j \in 1..Len(nodes') :
            nodes'[j] \notin NodeSet(nodes) =>
              /\ ~HasKey(nodes, nodes'[j].name)
              /\ Includes(uniqueRooms(edges'), nodes'[j].name)
    ]_vars

\* An edit has dropped a node and kept one of a size the user had set.
C9_Witness ==
  /\ last.op = "input"
  /\ Len(nodes) = 2
  /\ Len(edges) = 1
  /\ \E k \in 1..Len(nodes) : nodes[k].w # BaseW \/ nodes[k].h # BaseH

\* The lines of a text: the pieces between single newlines.
RECURSIVE LinesOf(_, _)
LinesOf(s, cur) ==
  IF s = <<>> THEN <<cur>>
  ELSE IF Head(s) = NL THEN <<cur>> \o LinesOf(Tail(s), <<>>)
  ELSE LinesOf(Tail(s), Append(cur, Head(s)))

\* Where "=>" stands in l with text that is not blank in front of it.
Separators(l) ==
  {p \in 1..(Len(l) - 1) :
     l[p] = "=" /\ l[p + 1] = ">" /\ Trim(SubSeq(l, 1, p - 1)) # <<>>}

\* Whether l is `left => right` with neither side blank.
WellFormed(l) ==
  \E p \in Separators(l) : Trim(SubSeq(l, p + 2, Len(l))) # <<>>

\* The edge of a well-formed line: split at its first separator.
EdgeOf(l) ==
  LET p == CHOOSE q \in Separators(l) : \A r \in Separators(l) : q <= r
  IN [from |-> Trim(SubSeq(l, 1, p - 1)), to |-> Trim(SubSeq(l, p + 2, Len(l)))]

RECURSIVE EdgesOf(_)
EdgesOf(ls) ==
  IF ls = <<>> THEN <<>>
  ELSE (IF WellFormed(Head(ls)) THEN <<EdgeOf(Head(ls))>> ELSE <<>>)
         \o EdgesOf(Tail(ls))

\* C10: parseEdges returns, in order, one edge per line of the form
\* `left => right` with neither side blank, whatever the text of the two
\* sides, split at the first separator that has text in front of it, both
\* sides trimmed; every other line is dropped.
C10_ParseEdges == last.op = "parse" => edges = EdgesOf(LinesOf(text, <<>>))

\* The endpoints of es in scanning order: from before to, edge after edge.
RECURSIVE Scan(_)
Scan(es) ==
  IF es = <<>> THEN <<>> ELSE <<Head(es).from, Head(es).to>> \o Scan(Tail(es))

\* Where x first stands in the sequence s.
FirstAt(s, x) == CHOOSE i \in 1..Len(s) : s[i] = x /\ \A j \in 1..(i - 1) : s[j] # x

\* C11: uniqueRooms returns every endpoint of the edge list exactly once,
\* in the order of first occurrence when the edges are scanned in order,
\* from before to; an edge list of the one edge A => A yields <<A>>.
C11_UniqueRooms ==
  last.op = "names" =>
    LET s == Scan(edges)
    IN /\ \A i \in 1..Len(s) : \E k \in 1..Len(sizeRows) : sizeRows[k] = s[i]
       /\ \A k \in 1..Len(sizeRows) : \E i \in 1..Len(s) : s[i] = sizeRows[k]
       /\ \A j, k \in 1..Len(sizeRows) :
            j < k => FirstAt(s, sizeRows[j]) < FirstAt(s, sizeRows[k])
       /\ (Len(edges) = 1 /\ edges[1].from = edges[1].to) =>
            sizeRows = <<edges[1].from>>

\* The names of a list with a repeated edge and an edge from a room to
\* itself have been taken.
C11_Witness ==
  /\ last.op = "names"
  /\ Len(edges) = 3
  /\ edges[1] = edges[3]
  /\ edges[1].from # edges[1].to
  /\ edges[2].from = edges[2].to
  /\ Len(sizeRows) = 3

\* The radius of the circle for a pane of w by h pixels: max(60, 0.35 * min(w, h)).
CircleRadius(pane) ==
  LET share == Quot(Min(pane.w, pane.h) * RadiusShare100 * PosUnit, 100)
  IN IF share > MinRadius * PosUnit THEN share ELSE MinRadius * PosUnit

\* The place of slot i (from 0) of n on the circle about the origin.
SlotPos(i, n, pane) ==
  <<Quot(CircleDir(i, n)[1] * CircleRadius(pane), DirUnit),
    Quot(CircleDir(i, n)[2] * CircleRadius(pane), DirUnit)>>

\* C12: reconciliation creates a node for every listed name the store does
\* not hold, at rest, of the base size, at the slot of the name's index in
\* the name list; from `a => b`, `b => c` on an empty store it makes the
\* nodes a, b, c, with a in slot 0, the top of the circle.
C12_CreatedOnCircle ==
  [][last'.op \in ReconcileOps =>
       LET names == uniqueRooms(edges)
       IN /\ \A i \in 1..Len(names) :
               ~HasKey(nodes, names[i]) =>
                 \E k \in 1..Len(nodes') :
                   /\ nodes'[k].name = names[i]
                   /\ nodes'[k].vx = 0
                   /\ nodes'[k].vy = 0
                   /\ nodes'[k].w = BaseW
                   /\ nodes'[k].h = BaseH
                   /\ <<nodes'[k].px, nodes'[k].py>> = SlotPos(i - 1, Len(names), canvas)
          /\ (nodes = <<>> /\ edges = <<[from |-> Str_a, to |-> Str_b],
                                        [from |-> Str_b, to |-> Str_c]>>) =>
               /\ {nodes'[k].name : k \in 1..Len(nodes')} = {Str_a, Str_b, Str_c}
               /\ Len(nodes') = 3
               /\ Len(edges') = 2
               /\ \E k \in 1..Len(nodes') :
                    /\ nodes'[k].name = Str_a
                    /\ nodes'[k].px = 0
                    /\ nodes'[k].py = -CircleRadius(canvas)
    ]_vars

\* The three nodes of `a => b`, `b => c` have been made on an empty store,
\* in the small pane, where the floor of 60 decides the radius.
C12_Witness ==
  /\ last.op = "reconcile"
  /\ nEvents = 1
  /\ edges = <<[from |-> Str_a, to |-> Str_b], [from |-> Str_b, to |-> Str_c]>>
  /\ canvas = [w |-> 160, h |-> 120]
  /\ Len(nodes) = 3
  /\ \A k \in 1..Len(nodes) : nodes[k].vx = 0 /\ nodes[k].w = BaseW
  /\ nodes[1].py = -MinRadius * PosUnit
  /\ nodes[2].px > 0
  /\ nodes[3].px < 0

\* What the program holds, without the observations of the model.
program == <<preview, text, edges, nodes, lastNamesKey, sizeRows, drag, canvas,
             simRunning, animationLoop, listeners, mounted>>

\* C13: when teardown returns the controller is idle, the renderer holds
\* no callback and none of the seven listeners of setup is registered; a
\* teardown after a teardown changes nothing.
C13_TeardownReleases ==
  [][last'.op = "cleanup" =>
       /\ ~simRunning'
       /\ animationLoop' = "null"
       /\ listeners' \cap ALL_LISTENERS = {}
       /\ ~mounted => UNCHANGED program
    ]_vars

\* Teardown has been called twice on an interactive instance that was
\* running.
C13_Witness ==
  /\ ~preview
  /\ last.op = "cleanup"
  /\ ~last.ran
  /\ nEvents = 2
  /\ nTicks = 0
  /\ ~drag.isDragging
  /\ ~mounted
  /\ listeners = {}

\* The releases a teardown has not made.
Unreleased ==
  listeners
    \cup (IF simRunning \/ animationLoop = "step" THEN {"stop"} ELSE {})
    \cup (IF mounted THEN {"remove"} ELSE {})

\* C14: whichever single release step throws, no exception leaves teardown
\* and every other release is made: at most the failing one is missing.
C14_TeardownBestEffort ==
  [][last'.op \in {"cleanup", "cleanup threw"} =>
       /\ last'.op = "cleanup"
       /\ Cardinality(Unreleased') <= 1
    ]_vars

\* C15: a call out of sequence is a no-op: stop() on an idle controller,
\* start() on a running one, and start() or stop() after teardown change
\* neither the flag nor the callback; after teardown the controller stays
\* idle with no callback.
C15_OutOfSequenceNoOps ==
  /\ [][(\/ last'.op \in {"start", "stop"} /\ ~mounted
         \/ last'.op = "start" /\ simRunning
         \/ last'.op = "stop" /\ ~simRunning)
          => UNCHANGED <<simRunning, animationLoop>>]_vars
  /\ [](~mounted => (~simRunning /\ animationLoop = "null"))

\* The width or the height of a node, as the size input for k names it.
Dim(n, k) == IF k = "w" THEN n.w ELSE n.h

\* C16, as amended: a size input is never rejected; an empty, non-numeric
\* or zero value leaves the base width or height, a negative value or one
\* below 20 leaves 20, any other value is at least 20; every node of every
\* reachable state is at least 20 wide and 20 high.
C16_SizeFloor ==
  /\ [][\A i \in 1..Len(sizeRows), k \in {"w", "h"}, v \in SizeValues :
          (last'.op = "size" /\ nodes' = SizeWritten(nodes, sizeRows[i], k, v)) =>
            \A j \in 1..Len(nodes) :
              nodes[j].name = sizeRows[i] =>
                /\ Dim(nodes'[j], k) >= MinSize * PosUnit
                /\ (v.nan \/ v.n = 0) => Dim(nodes'[j], k) = (IF k = "w" THEN BaseW ELSE BaseH)
                /\ (~v.nan /\ v.n # 0 /\ v.n < MinSize) =>
                     Dim(nodes'[j], k) = MinSize * PosUnit
       ]_vars
  /\ [](\A j \in 1..Len(nodes) :
          nodes[j].w >= MinSize * PosUnit /\ nodes[j].h >= MinSize * PosUnit)

\* C16: a size input is never rejected: every value that is no number of
\* 20 or more (non-numeric, empty, zero, negative, below 20) leaves the
\* minimum 20; every node of every reachable state is at least 20 wide and
\* 20 high.
C16_InvalidLeavesMinimum ==
  /\ [][\A i \in 1..Len(sizeRows), k \in {"w", "h"}, v \in SizeValues :
          (last'.op = "size" /\ nodes' = SizeWritten(nodes, sizeRows[i], k, v)) =>
            \A j \in 1..Len(nodes) :
              nodes[j].name = sizeRows[i] =>
                /\ Dim(nodes'[j], k) >= MinSize * PosUnit
                /\ (v.nan \/ v.n < MinSize) => Dim(nodes'[j], k) = MinSize * PosUnit
       ]_vars
  /\ [](\A j \in 1..Len(nodes) :
          nodes[j].w >= MinSize * PosUnit /\ nodes[j].h >= MinSize * PosUnit)

\* Two size inputs have acted and a value below 20 has left one node 20
\* wide, every node having the base height.
C16_Witness ==
  /\ last.op = "size"
  /\ nEvents = 2
  /\ \E j \in 1..Len(nodes) : nodes[j].w = MinSize * PosUnit
  /\ \A j \in 1..Len(nodes) : nodes[j].h = BaseH

\* The nodes of ns whose rectangle holds pt and whose area no other node
\* holding pt undercuts.
SmallestHolding(pt, ns) ==
  { j \in 1..Len(ns) :
      /\ Within(pt, ns[j])
      /\ \A i \in 1..Len(ns) : Within(pt, ns[i]) => ns[j].w * ns[j].h <= ns[i].w * ns[i].h }

\* C17: right after a pointer-down whose point lies inside at least one
\* node rectangle the drag is active, the drag node is the picked node (a
\* smallest node holding the point), the offset is node centre minus
\* pointer, and the controller is not running, whatever it was before.
C17_PointerDownGrabs ==
  [][(last'.op = "pointerdown" /\ \E j \in 1..Len(nodes) : Within(last'.pt, nodes[j])) =>
       /\ drag'.isDragging
       /\ \E t \in SmallestHolding(last'.pt, nodes) :
            /\ drag'.dragNode = nodes[t].id
            /\ drag'.dragOffset = <<nodes[t].px - last'.pt[1], nodes[t].py - last'.pt[2]>>
       /\ ~simRunning'
    ]_vars

\* A pointer-down has grabbed a node while the controller was running.
C17_Witness ==
  /\ last.op = "pointerdown"
  /\ last.ran
  /\ drag.isDragging
  /\ \E j \in 1..Len(nodes) : nodes[j].id = drag.dragNode /\ Within(last.pt, nodes[j])
  /\ ~simRunning

\* C18, as amended: after a pointer-up that ends an active drag of an
\* interactive instance the drag is inactive, no drag node is recorded and
\* the controller is Running with its callback installed; a pointer-up
\* with no drag active leaves the drag and the controller as they were.
C18_DragEndRestarts ==
  [][(last'.op = "pointerup" /\ ~preview) =>
       /\ ~drag'.isDragging /\ drag'.dragNode = 0
       /\ drag.isDragging => (simRunning' /\ animationLoop' = "step")
       /\ ~drag.isDragging =>
            (drag' = drag /\ simRunning' = simRunning /\ animationLoop' = animationLoop)
    ]_vars

\* C18: after every pointer-up of an interactive instance the drag is
\* inactive, no drag node is recorded and the controller is Running.
C18_PointerUpRestarts ==
  [][(last'.op = "pointerup" /\ ~preview) =>
       (~drag'.isDragging /\ drag'.dragNode = 0 /\ simRunning')
    ]_vars

\* A pointer-up has ended a drag and started the controller, which the
\* pointer-down had stopped.
C18_Witness ==
  /\ last.op = "pointerup"
  /\ ~preview
  /\ ~last.ran
  /\ simRunning /\ animationLoop = "step"
  /\ ~drag.isDragging /\ drag.dragNode = 0

\* A node without its position and velocity.
Frame(n) == [id |-> n.id, name |-> n.name, w |-> n.w, h |-> n.h]

\* C19: a pointer-move during an active drag changes, of all node fields,
\* only the dragged node's position and velocity; every other node, every
\* node's width and height, the node keys and their order, the edge list
\* and the controller's state are as they were.
C19_DragMoveFrame ==
  [][(last'.op = "pointermove" /\ drag.isDragging) =>
       /\ Len(nodes') = Len(nodes)
       /\ \A j \in 1..Len(nodes) :
            /\ Frame(nodes'[j]) = Frame(nodes[j])
            /\ nodes[j].id # drag.dragNode => nodes'[j] = nodes[j]
       /\ edges' = edges
       /\ simRunning' = simRunning
       /\ animationLoop' = animationLoop
    ]_vars

\* A pointer-move has carried the dragged node somewhere else while the
\* store holds another node as well.
C19_Witness ==
  /\ last.op = "pointermove"
  /\ drag.isDragging
  /\ Len(nodes) >= 2
  /\ \E j \in 1..Len(nodes) :
       /\ nodes[j].id = drag.dragNode
       /\ <<nodes[j].px, nodes[j].py>> = <<last.pt[1] + drag.dragOffset[1], last.pt[2] + drag.dragOffset[2]>>
       /\ <<nodes[j].px - drag.dragOffset[1], nodes[j].py - drag.dragOffset[2]>> # <<0, 0>>

\* Whether pt lies in the rectangle centre +/- half width, half height of n,
\* the boundary included (all lengths doubled).
InRect(pt, n) ==
  /\ Abs(2 * pt[1] - 2 * n.px) <= n.w
  /\ Abs(2 * pt[2] - 2 * n.py) <= n.h

\* C20: pickNodeAt returns null exactly when no node's rectangle, boundary
\* included, holds the point; otherwise it returns a node that holds the
\* point and whose area no node holding the point undercuts.
C20_PickSmallest ==
  last.op = "pick" =>
    /\ drag.dragNode = 0 <=> \A j \in 1..Len(nodes) : ~InRect(last.pt, nodes[j])
    /\ drag.dragNode # 0 =>
         \E t \in 1..Len(nodes) :
           /\ nodes[t].id = drag.dragNode
           /\ InRect(last.pt, nodes[t])
           /\ \A j \in 1..Len(nodes) :
                InRect(last.pt, nodes[j]) => nodes[t].w * nodes[t].h <= nodes[j].w * nodes[j].h

\* The point lies on the boundary of a small rectangle listed after a
\* larger one that holds the point too, and the small one is picked.
C20_Witness ==
  /\ last.op = "pick"
  /\ Len(nodes) = 2
  /\ drag.dragNode = nodes[2].id
  /\ InRect(last.pt, nodes[1])
  /\ nodes[2].w * nodes[2].h < nodes[1].w * nodes[1].h
  /\ Abs(2 * last.pt[1] - 2 * nodes[2].px) = nodes[2].w

\* C21: a pointer-down whose point lies in no node rectangle, and a
\* pointer-move while no drag is active, leave the drag state, every node,
\* the edge list and the controller's state as they were.
C21_MissChangesNothing ==
  [][((last'.op = "pointerdown" /\ \A j \in 1..Len(nodes) : ~InRect(last'.pt, nodes[j]))
        \/ (last'.op = "pointermove" /\ ~drag.isDragging)) =>
       /\ drag' = drag
       /\ nodes' = nodes
       /\ edges' = edges
       /\ simRunning' = simRunning
       /\ animationLoop' = animationLoop
    ]_vars

\* A pointer-down beside every node of a non-empty store has arrived while
\* the controller was running.
C21_Witness ==
  /\ last.op = "pointerdown"
  /\ last.ran
  /\ Len(nodes) > 0
  /\ \A j \in 1..Len(nodes) : ~InRect(last.pt, nodes[j])
  /\ ~drag.isDragging
  /\ simRunning

\* C22: a tick that finds the node set empty stops the controller and
\* releases its subscription without forces, integration, redraw or
\* convergence test, so a controller started on an empty graph is Idle
\* after one tick.
C22_EmptyTickStops ==
  [][(last'.op = "tick" /\ Len(nodes) = 0) =>
       /\ ~simRunning'
       /\ animationLoop' = "null"
       /\ nodes' = nodes
       /\ lastNamesKey' = lastNamesKey /\ sizeRows' = sizeRows /\ canvas' = canvas
    ]_vars

\* A controller started on the empty store has had its first tick.
C22_Witness ==
  /\ last.op = "tick"
  /\ last.ran
  /\ nTicks = 1
  /\ nodes = <<>>
  /\ ~simRunning /\ animationLoop = "null"

\* C23: the step runs only while the controller is Running; while it is
\* Idle no step executes, and the nodes change only through a drag move, a
\* size input or the reconciliation of a refresh.
C23_NoStepWhileIdle ==
  [][/\ last'.op = "tick" => (simRunning /\ animationLoop = "step")
     /\ (~simRunning /\ nodes' # nodes) =>
          last'.op \in RefreshOps \cup {"pointermove", "size"}
    ]_vars

\* After a tick and the stop of a pointer-down, a drag move has changed a
\* node while the controller is Idle.
C23_Witness ==
  /\ nTicks >= 1
  /\ last.op = "pointermove"
  /\ ~last.ran
  /\ ~simRunning
  /\ drag.isDragging
  /\ \E j \in 1..Len(nodes) : nodes[j].id = drag.dragNode /\ nodes[j].vx = 0 /\ nodes[j].vy = 0

\* The edge list with its k-th edge turned round.
ReverseAt(es, k) == [es EXCEPT ![k] = [from |-> es[k].to, to |-> es[k].from]]

\* The edge list with its k-th edge once more at the end.
DuplicateAt(es, k) == Append(es, es[k])

\* The positions and velocities one tick leaves of ns under the edges es.
TickNodes(ns, es) ==
  drawGraph([Draw EXCEPT !.nodes = integrateAndCenter(pairwiseForces(ns, es))],
            es, canvas, Held).nodes

\* C24: isConnected(a, b) = isConnected(b, a), true exactly when some edge
\* joins a and b in either direction, and a tick leaves the same positions
\* and velocities when any one edge is reversed or duplicated.
C24_AdjacencyUndirected ==
  [][/\ \A x, y \in {Str_a, Str_b, Str_c} :
          /\ isConnected(edges, x, y) = isConnected(edges, y, x)
          /\ isConnected(edges, x, y) <=>
               \E k \in 1..Len(edges) : {edges[k].from, edges[k].to} = {x, y}
     /\ last'.op = "tick" =>
          \A k \in 1..Len(edges) :
            /\ nodes' = TickNodes(nodes, ReverseAt(edges, k))
            /\ nodes' = TickNodes(nodes, DuplicateAt(edges, k))
    ]_vars

\* A tick has pulled a towards b, far to its right, to which only an edge
\* from b to a joins it.
C24_Witness ==
  /\ last.op = "tick"
  /\ nTicks = 1
  /\ edges[1] = [from |-> Str_b, to |-> Str_a]
  /\ \A k \in 1..Len(edges) : edges[k] # [from |-> Str_a, to |-> Str_b]
  /\ nodes[2].px > 1000
  /\ nodes[1].vx > 0

ResolveOps == {"resolve hit", "resolve miss"}

\* Twice the overlap of a and b along x and along y.
OverlapX2(a, b) == a.w + b.w - 2 * Abs(b.px - a.px)

OverlapY2(a, b) == a.h + b.h - 2 * Abs(b.py - a.py)

\* Half the overlap whose double is o2, and half a velocity, on the grid of
\* the lengths and velocities.
HalfOverlap(o2) == o2 \div 4

HalfVel(v) == IF v >= 0 THEN v \div 2 ELSE -((-v) \div 2)

\* +1, or -1 when d is negative.
PushSign(d) == IF d < 0 THEN -1 ELSE 1

\* C25: resolveAabbOverlap returns true and corrects the pair exactly when
\* both overlaps are positive; it then moves a by -s * overlap / 2 and b by
\* +s * overlap / 2 along the axis of the smaller overlap only (s the sign
\* of b - a there, +1 at zero), halves both velocities on that axis and
\* touches nothing on the other; otherwise it returns false and changes
\* nothing.
C25_ResolveSmallerAxis ==
  [][last'.op \in ResolveOps =>
       LET a == nodes[1]
           b == nodes[2]
           a1 == nodes'[1]
           b1 == nodes'[2]
           ox == OverlapX2(a, b)
           oy == OverlapY2(a, b)
           sx == PushSign(b.px - a.px)
           sy == PushSign(b.py - a.py)
       IN /\ last'.op = "resolve hit" <=> (ox > 0 /\ oy > 0)
          /\ nodes'[3] = nodes[3]
          /\ last'.op = "resolve miss" => nodes' = nodes
          /\ (last'.op = "resolve hit" /\ ox < oy) =>
               /\ a1 = [a EXCEPT !.px = a.px - sx * HalfOverlap(ox), !.vx = HalfVel(a.vx)]
               /\ b1 = [b EXCEPT !.px = b.px + sx * HalfOverlap(ox), !.vx = HalfVel(b.vx)]
          /\ (last'.op = "resolve hit" /\ oy < ox) =>
               /\ a1 = [a EXCEPT !.py = a.py - sy * HalfOverlap(oy), !.vy = HalfVel(a.vy)]
               /\ b1 = [b EXCEPT !.py = b.py + sy * HalfOverlap(oy), !.vy = HalfVel(b.vy)]
    ]_vars

\* b lay on a centre on centre; the correction has moved a down and b up
\* by half the overlap of the heights and halved b's vertical velocity.
C25_Witness ==
  /\ last.op = "resolve hit"
  /\ nEvents = 1 /\ nTicks = 0
  /\ nodes[1].px = 0 /\ nodes[2].px = 0
  /\ nodes[1].py = -250 /\ nodes[2].py = 250
  /\ nodes[2].vy = -20

\* The distance of the centres of a and b, and the distance a connected
\* pair is drawn to.
CentreDist(a, b) == Hypot(b.px - a.px, b.py - a.py)

TargetDist(a, b) == Radius(a) + Radius(b) + TargetGap * PosUnit

\* Whether the velocity change <<dvx, dvy>> has no part against <<dx, dy>>.
Along(dvx, dvy, dx, dy) == Sign(dvx) \in {0, Sign(dx)} /\ Sign(dvy) \in {0, Sign(dy)}

\* Whether the force on the pair is more than the grid of the velocities
\* can lose: two steps of it or more.
StrongPull(a, b) ==
  Abs(CentreDist(a, b) - TargetDist(a, b)) * AttractK100 * VelUnit
    >= 2 * 100 * PosUnit * FrameRate

StrongPush(a, b) ==
  LET d == Max(CentreDist(a, b), DistEps)
  IN Quot(Quot(RepelK * PosUnit * PosUnit * VelUnit, FrameRate), d) >= 2 * d

\* C26: the force on a connected pair turns the two velocities toward each
\* other when the centres are farther apart than radius(a) + radius(b) +
\* targetGap and away from each other when they are nearer (no change at
\* the target); the force on an unconnected pair always turns them away
\* from each other; the two changes are equal and opposite.
C26_ForceDirection ==
  [][last'.op = "force" =>
       LET a == nodes[1]
           b == nodes[2]
           dvx == nodes'[1].vx - a.vx
           dvy == nodes'[1].vy - a.vy
           dx == b.px - a.px
           dy == b.py - a.py
           dist == CentreDist(a, b)
           moved == <<dvx, dvy>> # <<0, 0>>
       IN /\ nodes'[2].vx - b.vx = -dvx
          /\ nodes'[2].vy - b.vy = -dvy
          /\ (isConnected(edges, a.name, b.name) /\ dist > TargetDist(a, b)) =>
               (Along(dvx, dvy, dx, dy) /\ (StrongPull(a, b) => moved))
          /\ (isConnected(edges, a.name, b.name) /\ dist < TargetDist(a, b)) =>
               (Along(dvx, dvy, -dx, -dy) /\ (StrongPull(a, b) => moved))
          /\ (isConnected(edges, a.name, b.name) /\ dist = TargetDist(a, b)) => ~moved
          /\ ~isConnected(edges, a.name, b.name) =>
               (Along(dvx, dvy, -dx, -dy) /\ (StrongPush(a, b) => moved))
    ]_vars

\* C27: while a drag is active the recorded drag node is a node of the
\* store, whatever text edits came since the pointer-down.
C27_DragNodeStored ==
  drag.isDragging => \E j \in 1..Len(nodes) : nodes[j].id = drag.dragNode

\* C28: in an interactive instance every refresh (text edit, Add click that
\* adds a line, show-arrows change, window resize) and every size input
\* ends with the controller Running, whatever it was before and whether or
\* not the graph changed.
C28_RefreshRearms ==
  [][(/\ ~preview
      /\ \/ last'.op \in {"input", "change", "resize", "size"}
         \/ (last'.op = "click" /\ text' # text)) =>
       (simRunning' /\ animationLoop' = "step")
    ]_vars

\* A show-arrows change, which alters neither edges nor nodes, has started
\* a controller that was Idle.
C28_Witness ==
  /\ ~preview
  /\ last.op = "change"
  /\ ~last.ran
  /\ simRunning /\ animationLoop = "step"

\* C29: after every refresh every endpoint of every current edge names a
\* node of the store, and the names of the store are exactly the names the
\* edges give.
C29_StoreMatchesEdges ==
  [][(last'.op \in {"input", "change", "resize"} \/ (last'.op = "click" /\ text' # text)) =>
       /\ \A k \in 1..Len(edges') :
            HasKey(nodes', edges'[k].from) /\ HasKey(nodes', edges'[k].to)
       /\ {nodes'[j].name : j \in 1..Len(nodes')} =
            {edges'[k].from : k \in 1..Len(edges')} \cup {edges'[k].to : k \in 1..Len(edges')}
    ]_vars

\* C30: when resolveAabbOverlap corrects a pair, the rectangles overlap no
\* longer (the overlap on the corrected axis is exactly zero) and the sum
\* of the two positions is unchanged, so a second call on the pair
\* corrects nothing.
C30_OneCorrectionSuffices ==
  [][last'.op = "resolve hit" =>
       LET a == nodes[1]
           b == nodes[2]
           a1 == nodes'[1]
           b1 == nodes'[2]
       IN /\ ~(OverlapX2(a1, b1) > 0 /\ OverlapY2(a1, b1) > 0)
          /\ OverlapX2(a, b) < OverlapY2(a, b) => OverlapX2(a1, b1) = 0
          /\ OverlapY2(a, b) < OverlapX2(a, b) => OverlapY2(a1, b1) = 0
          /\ a1.px + b1.px = a.px + b.px
          /\ a1.py + b1.py = a.py + b.py
          /\ ~resolveAabbOverlap(a1, b1).hit
    ]_vars

=============================================================================
